---- MODULE Spec2Model ----
(***************************************************************************)
(* State-machine model of the MCP server in src/src/index.ts:              *)
(*   - the call-tool request handler (callToolRequestHandler), one step    *)
(*     per run-to-completion segment between two awaits;                   *)
(*   - the session-tracked HTTP transport (runHTTPStreamableServer);       *)
(*   - the startup code (key check, transport selection) and the           *)
(*     push-stream transport (runSSELocalServer).                          *)
(***************************************************************************)
EXTENDS Integers, Sequences, FiniteSets, TLC

(***************************************************************************)
(* Bounds of the model.                                                    *)
(***************************************************************************)
MaxShortLen == 2

MidLen == 6

LongLen == 11

(***************************************************************************)
(* JSON values as the handler sees them (typeof / truthiness).             *)
(***************************************************************************)
Undefined == [t |-> "undefined"]

Str(s) == [t |-> "string", v |-> s]

Num(n) == [t |-> "number", v |-> n]

Bool(b) == [t |-> "boolean", v |-> b]

Arr(s) == [t |-> "array", v |-> s]

Obj(keys) == [t |-> "object", v |-> keys]

\* JavaScript truthiness: !x is the negation of this.
Truthy(x) ==
  CASE x.t = "undefined" -> FALSE
    [] x.t = "string" -> x.v # ""
    [] x.t = "number" -> x.v # 0
    [] x.t = "boolean" -> x.v
    [] OTHER -> TRUE

IsArray(x) == x.t = "array"

(***************************************************************************)
(* Text: a sequence of tokens; the whitespace tokens are " " and "\n",     *)
(* every other token is a phrase without leading or trailing whitespace.   *)
(***************************************************************************)
IsSpace(tok) == tok \in {" ", "\n"}

RECURSIVE TrimStart(_)
TrimStart(s) ==
  IF s # <<>> /\ IsSpace(Head(s)) THEN TrimStart(Tail(s)) ELSE s

RECURSIVE TrimEnd(_)
TrimEnd(s) ==
  IF s # <<>> /\ IsSpace(s[Len(s)]) THEN TrimEnd(SubSeq(s, 1, Len(s) - 1)) ELSE s

\* text.trim()
trimResponseText(text) == TrimEnd(TrimStart(text))

(***************************************************************************)
(* Inputs: URLs, URL lists, argument objects, requests.                    *)
(***************************************************************************)
UrlA == "https://a.example/"

UrlB == "http://b.example/?q=1#top"

UrlBad == "ftp://x"

Urls == {UrlA, UrlB, UrlBad}

\* Scheme of each URL of the input set (what `new URL(s).protocol` yields).
UrlScheme(u) ==
  CASE u = UrlA -> "https"
    [] u = UrlB -> "http"
    [] u = UrlBad -> "ftp"
    [] OTHER -> ""

\* Validation Utilities: true only for the schemes http and https.
isValidUrl(u) == UrlScheme(u) \in {"http", "https"}

ShortLists == UNION {[1..n -> Urls] : n \in 0..MaxShortLen}

MidList == [k \in 1..MidLen |-> IF k = 2 THEN UrlB ELSE UrlA]

LongList == [k \in 1..LongLen |-> IF k = 2 THEN UrlB ELSE UrlA]

UrlLists == ShortLists \cup {MidList, LongList}

\* request.params.arguments when present: a JSON object; a property the
\* caller left out reads as undefined.
MkArgs(url, urls, prompt, schema, omc) ==
  [t |-> "object", url |-> url, urls |-> urls, prompt |-> prompt,
   schema |-> schema, onlyMainContent |-> omc, enableWebSearch |-> Undefined]

ScrapeArgs ==
  {MkArgs(u, Undefined, Undefined, Undefined, o) :
     u \in {Str(x) : x \in Urls} \cup {Num(42)},
     o \in {Undefined, Bool(FALSE)}}

BatchArgs ==
  {MkArgs(Undefined, Arr(l), Undefined, Undefined, Undefined) : l \in UrlLists}
    \cup {MkArgs(Undefined, Str(UrlA), Undefined, Undefined, Undefined),
          MkArgs(Undefined, Arr(<<UrlB, UrlA>>), Undefined, Undefined, Bool(FALSE))}

Prompts == {Undefined, Str(""), Str("get title")}

\* Validation Utilities: the length a prompt must stay below.
MaxPromptLength == 10000

\* A string of n characters.
RECURSIVE Chars(_)
Chars(n) ==
  IF n = 0 THEN ""
  ELSE IF n % 2 = 0 THEN LET half == Chars(n \div 2) IN half \o half
  ELSE "a" \o Chars(n - 1)

\* Validation Utilities: validatePrompt(s) is true iff 1 <= length(s) < 10000.
validatePrompt(p) == 1 <= Len(p) /\ Len(p) < MaxPromptLength

\* Prompts of 1, 9999 and 10000 characters.
EdgePrompts == {Str(Chars(1)), Str(Chars(MaxPromptLength - 1)), Str(Chars(MaxPromptLength))}

Schemas == {Undefined, Obj({"title"}), Str("title"), Bool(TRUE), Arr(<<"title">>)}

ExtractArgs ==
  {MkArgs(Undefined, Arr(l), p, s, Undefined) :
     l \in {<<>>, <<UrlA>>, <<UrlA, UrlBad>>, MidList}, p \in Prompts, s \in Schemas}
    \cup {MkArgs(Undefined, Arr(LongList), Undefined, Obj({"title"}), Undefined)}
    \cup {MkArgs(Undefined, Arr(<<UrlA>>), p, Undefined, Undefined) : p \in EdgePrompts}

ArgsSet ==
  {Undefined, MkArgs(Undefined, Undefined, Undefined, Undefined, Undefined)}
    \cup ScrapeArgs \cup BatchArgs \cup ExtractArgs

\* The tools the dispatcher's switch has a case for (index.ts 458-521).
ToolNames == {"scrape_page", "batch_scrape", "extract_data", "extract_with_schema"}

Names == ToolNames \cup {"screenshot", "crawl"}

MetaKeys == {Undefined, Str("key-1")}

Requests == [name : Names, args : ArgsSet, metaKey : MetaKeys]

NoRequest == [name |-> "", args |-> Undefined, metaKey |-> Undefined]

(***************************************************************************)
(* The upstream service (external): what a page holds and how it fails.    *)
(***************************************************************************)
PageOf(u) ==
  CASE u = UrlA -> [markdown |-> "# A", html |-> "<h1>A</h1>"]
    [] u = UrlB -> [markdown |-> "", html |-> "<p>B</p>"]
    [] OTHER -> [markdown |-> "", html |-> ""]

ErrorOf(u) ==
  CASE u = UrlA -> <<"Request failed with status code 429">>
    [] u = UrlB -> <<"Request timed out", "\n">>
    [] OTHER -> <<"Unsupported protocol">>

ExtractResponse == [success |-> TRUE, data |-> "extracted"]

ExtractError == <<"Extract failed:", " ", "rate limit exceeded">>

(***************************************************************************)
(* State.                                                                  *)
(***************************************************************************)
VARIABLES
  cloud,      \* process.env.CLOUD_SERVICE === 'true'
  envKey,     \* FIRECRAWL_API_KEY
  proc,       \* "running" | "exited"
  exitCode,   \* exit status once proc = "exited", else -1
  req,        \* per invocation: the request being handled
  pc,         \* per invocation: "idle", the await it is suspended on, or "done"
  idx,        \* per invocation: position of the batch loop in args.urls
  results,    \* per invocation: the batch loop's results array
  trace,      \* per invocation: upstream calls, their settlements, delays
  log,        \* per invocation: safeLog lines
  settled     \* per invocation: how the handler's promise settled

toolVars == <<cloud, envKey, proc, exitCode, req, pc, idx, results, trace, log, settled>>

VARIABLES
  transports, \* runHTTPStreamableServer: the session map, session id -> channel
  chans,      \* every StreamableHTTPServerTransport created so far
  hreqs,      \* /mcp requests being handled, per connection
  nextSid,    \* how many session ids randomUUID() has produced
  shut        \* the SIGINT handler's position

httpVars == <<transports, chans, hreqs, nextSid, shut>>

VARIABLES
  sseLocal,       \* process.env.SSE_LOCAL === 'true'
  httpStreamable, \* process.env.HTTP_STREAMABLE_SERVER === 'true'
  boot,           \* position of the module's top-level startup code
  bindings        \* the transport bindings started so far

startVars == <<sseLocal, httpStreamable, boot, bindings>>

VARIABLES
  transport,  \* runSSELocalServer: the tracked stream (0 is null)
  streams,    \* every GET /sse response stream opened so far
  posts       \* POST /messages requests, per connection

sseVars == <<transport, streams, posts>>

VARIABLE listed \* the last list-tools response sent (<<>> before the first)

VARIABLE health \* the last response to GET /health (<<>> before the first)

VARIABLES
  proxyPool,  \* Rotation Pools: the proxy pool {items, cursor}
  uaPool,     \* Rotation Pools: the user-agent pool {items, cursor}
  picked,     \* what the proxy pool's next() returned, call after call
  fetches,    \* Page Fetcher: per call, its position, its URL, its result
  browsers    \* every browser instance launched so far

fetchVars == <<proxyPool, uaPool, picked, fetches, browsers>>

VARIABLES
  retryCfg,   \* withRetry: CONFIG.retry
  attempt,    \* withRetry: the attempt parameter of the running call
  retryPc,    \* withRetry: "operation", "delay" or "done"
  retryTrace, \* withRetry: outcomes of the operation and delays, in order
  retryOut    \* withRetry: how its promise settled

retryVars == <<retryCfg, attempt, retryPc, retryTrace, retryOut>>

restVars == <<health, fetchVars, retryVars>>

vars == <<toolVars, httpVars, startVars, sseVars, listed, restVars>>

Slots == DOMAIN pc

(***************************************************************************)
(* Type guards and helpers of the handler.                                 *)
(***************************************************************************)
\* typeof args === 'object' && args !== null && 'url' in args &&
\* typeof args.url === 'string'
isScrapeOptions(args) == args.t = "object" /\ args.url.t = "string"

\* !Array.isArray(args.urls) || args.urls.length === 0
NoUrls(args) == ~IsArray(args.urls) \/ Len(args.urls.v) = 0

\* { formats: ['markdown'], onlyMainContent: args.onlyMainContent !== false }
ScrapeOptionsOf(args) ==
  [formats |-> <<"markdown">>, onlyMainContent |-> (args.onlyMainContent # Bool(FALSE))]

\* Mutant of ApiKeyOf: every invocation uses the key of the environment.
ApiKeyOfEnv(r) == envKey

\* process.env.CLOUD_SERVICE === 'true' ? request.params._meta?.apiKey : FIRECRAWL_API_KEY
ApiKeyOf(r) == IF cloud THEN r.metaKey ELSE envKey

ScrapeCall(u, opts, key) ==
  [e |-> "call", op |-> "scrape", url |-> u, opts |-> opts, key |-> key]

ExtractCall(params, key) ==
  [e |-> "call", op |-> "extract", params |-> params, key |-> key]

\* args.enableWebSearch as boolean || false
WebSearchOf(args) == IF Truthy(args.enableWebSearch) THEN args.enableWebSearch ELSE Bool(FALSE)

PlainText(toks) == [fmt |-> "plain", toks |-> toks]

\* JSON.stringify(value, null, 2)
JsonText(value) == [fmt |-> "json", value |-> value]

ToolResult(text, isErr) ==
  [content |-> <<[type |-> "text", text |-> text]>>, isError |-> isErr]

\* response.markdown || response.html || 'No content found'
ContentOf(response) ==
  IF response.markdown # "" THEN response.markdown
  ELSE IF response.html # "" THEN response.html
  ELSE "No content found"

\* What the synchronous prefix of the try block does (index.ts 434-541):
\* throws, returns, or issues an upstream call and suspends on it.
Throw(msg, received) == [kind |-> "throw", msg |-> msg, received |-> received]

Return(result) == [kind |-> "return", result |-> result, received |-> TRUE]

Await(at, call) == [kind |-> "await", at |-> at, call |-> call, received |-> TRUE]

ArgsMissing(args) == ~Truthy(args)

\* Mutant of UnknownTool: the default case reports success.
UnknownToolNotError(name) ==
  Return(ToolResult(PlainText(<<"Unknown tool:", " ", name>>), FALSE))

UnknownTool(name) == Return(ToolResult(PlainText(<<"Unknown tool:", " ", name>>), TRUE))

scrape_page(args, key) ==
  IF ~isScrapeOptions(args)
  THEN Throw(<<"Invalid arguments for scrape_page">>, TRUE)
  ELSE Await("scrape", ScrapeCall(args.url.v, ScrapeOptionsOf(args), key))

batch_scrape(args, key) ==
  IF NoUrls(args)
  THEN Throw(<<"Invalid arguments for batch_scrape:", " ", "urls array required">>, TRUE)
  ELSE Await("batch_fetch", ScrapeCall(args.urls.v[1], ScrapeOptionsOf(args), key))

\* Mutant of extract_data: the guard does not look at the prompt.
extract_dataNoPromptCheck(args, key) ==
  IF NoUrls(args)
  THEN Throw(<<"Invalid arguments for extract_data:", " ", "urls array and prompt required">>, TRUE)
  ELSE Await("extract",
             ExtractCall([urls |-> args.urls.v, prompt |-> args.prompt,
                          enableWebSearch |-> WebSearchOf(args)], key))

extract_data(args, key) ==
  IF NoUrls(args) \/ ~Truthy(args.prompt)
  THEN Throw(<<"Invalid arguments for extract_data:", " ", "urls array and prompt required">>, TRUE)
  ELSE Await("extract",
             ExtractCall([urls |-> args.urls.v, prompt |-> args.prompt,
                          enableWebSearch |-> WebSearchOf(args)], key))

extract_with_schema(args, key) ==
  IF NoUrls(args) \/ ~Truthy(args.schema)
  THEN Throw(<<"Invalid arguments for extract_with_schema:", " ", "urls array and schema required">>, TRUE)
  ELSE Await("extract",
             ExtractCall([urls |-> args.urls.v, schema |-> args.schema,
                          prompt |-> args.prompt,
                          enableWebSearch |-> WebSearchOf(args)], key))

Dispatch(name, args, key) ==
  CASE name = "scrape_page" -> scrape_page(args, key)
    [] name = "batch_scrape" -> batch_scrape(args, key)
    [] name = "extract_data" -> extract_data(args, key)
    [] name = "extract_with_schema" -> extract_with_schema(args, key)
    [] OTHER -> UnknownTool(name)

Entry(r) ==
  LET key == ApiKeyOf(r)
  IN  IF cloud /\ ~Truthy(key) THEN Throw(<<"No API key provided">>, FALSE)
      ELSE IF ArgsMissing(r.args) THEN Throw(<<"No arguments provided">>, TRUE)
      ELSE Dispatch(r.name, r.args, key)

\* Mutant of CatchResult: the caught fault is reported without isError.
CatchResultNotError(msg) ==
  ToolResult(PlainText(trimResponseText(<<"Error:", " ">> \o msg)), FALSE)

\* The catch block's result (index.ts 554-564).
CatchResult(msg) ==
  ToolResult(PlainText(trimResponseText(<<"Error:", " ">> \o msg)), TRUE)

ReceivedLog(r) == [level |-> "info", kind |-> "received", tool |-> r.name]

\* Date.now() - startTime, startTime being taken at handler entry.
Elapsed == [from |-> "startTime", to |-> "now"]

FailedLog(r, msg) ==
  [level |-> "error", kind |-> "failed", message |-> <<"Request failed:", " ">> \o msg,
   tool |-> r.name, arguments |-> r.args, duration |-> Elapsed]

\* `Request completed in ${Date.now() - startTime}ms`
CompletedLog == [level |-> "info", kind |-> "completed", duration |-> Elapsed]

\* The handler's promise resolves with `value`.
Resolved(value) == [kind |-> "resolve", value |-> value]

\* Mutant of Settle: the catch block is missing and the fault escapes.
SettleRethrow(out) ==
  IF out.kind = "throw"
  THEN <<[kind |-> "reject", error |-> out.msg]>>
  ELSE <<Resolved(out.result)>>

\* The log lines and the settlement that end an invocation whose try block
\* ended with `out` (a Return or a Throw): catch, then finally.
EndLog(r, out) ==
  IF out.kind = "throw" THEN <<FailedLog(r, out.msg), CompletedLog>> ELSE <<CompletedLog>>

EndValue(out) ==
  IF out.kind = "throw" THEN CatchResult(out.msg) ELSE out.result

Settle(out) == <<Resolved(EndValue(out))>>

(***************************************************************************)
(* The call-tool handler, one action per run-to-completion segment.        *)
(***************************************************************************)
\* await delay(200)
BatchDelayMs == 200

\* The try block of invocation i ended with `out`: catch, finally, settle.
Finish(i, out) ==
  /\ pc' = [pc EXCEPT ![i] = "done"]
  /\ settled' = [settled EXCEPT ![i] = Settle(out)]
  /\ log' = [log EXCEPT ![i] = @ \o EndLog(req[i], out)]

\* A call-tool request arrives: handler entry up to its first await or its end.
CallToolFrom(i, Rs) ==
  /\ proc = "running"
  /\ pc[i] = "idle"
  /\ \E r \in Rs :
    /\ LET out == Entry(r)
       IN  /\ req' = [req EXCEPT ![i] = r]
           /\ idx' = [idx EXCEPT ![i] = IF out.kind = "await" /\ out.at = "batch_fetch" THEN 1 ELSE 0]
           /\ results' = [results EXCEPT ![i] = <<>>]
           /\ trace' = [trace EXCEPT ![i] = IF out.kind = "await" THEN <<out.call>> ELSE <<>>]
           /\ IF out.kind = "await"
              THEN /\ pc' = [pc EXCEPT ![i] = out.at]
                   /\ settled' = [settled EXCEPT ![i] = <<>>]
                   /\ log' = [log EXCEPT ![i] = <<ReceivedLog(r)>>]
              ELSE /\ pc' = [pc EXCEPT ![i] = "done"]
                   /\ settled' = [settled EXCEPT ![i] = Settle(out)]
                   /\ log' = [log EXCEPT ![i] =
                                (IF out.received THEN <<ReceivedLog(r)>> ELSE <<>>) \o EndLog(r, out)]
    /\ UNCHANGED <<httpVars, startVars, sseVars, listed, restVars, cloud, envKey, proc, exitCode>>

CallTool(i) == CallToolFrom(i, Requests)

\* scrape_page: `await client.scrape(args.url, options)` settles.
ScrapeSettled(i) ==
  \E ok \in BOOLEAN :
    /\ proc = "running"
    /\ pc[i] = "scrape"
    /\ LET u == req[i].args.url.v
           out == IF ok
                  THEN Return(ToolResult(PlainText(<<ContentOf(PageOf(u))>>), FALSE))
                  ELSE Throw(ErrorOf(u), TRUE)
       IN  /\ trace' = [trace EXCEPT ![i] = Append(@, [e |-> "settle", ok |-> ok])]
           /\ Finish(i, out)
    /\ UNCHANGED <<httpVars, startVars, sseVars, listed, restVars, cloud, envKey, proc, exitCode, req, idx, results>>

\* One record of the batch result (index.ts 485-495).
BatchRecord(u, ok) ==
  IF ok
  THEN [url |-> u, success |-> TRUE, content |-> ContentOf(PageOf(u))]
  ELSE [url |-> u, success |-> FALSE, error |-> ErrorOf(u)]

\* Mutant of BatchFetchSettled: the delay is not awaited, the next fetch is
\* issued at once.
BatchFetchSettledNoDelay(i) ==
  \E ok \in BOOLEAN :
    /\ proc = "running"
    /\ pc[i] = "batch_fetch"
    /\ LET args == req[i].args
           urls == args.urls.v
           u == urls[idx[i]]
       IN  /\ results' = [results EXCEPT ![i] = Append(@, BatchRecord(u, ok))]
           /\ IF idx[i] < Len(urls)
              THEN /\ trace' = [trace EXCEPT ![i] =
                                  @ \o <<[e |-> "settle", ok |-> ok],
                                         ScrapeCall(urls[idx[i] + 1], ScrapeOptionsOf(args), ApiKeyOf(req[i]))>>]
                   /\ idx' = [idx EXCEPT ![i] = @ + 1]
                   /\ UNCHANGED <<pc, log, settled>>
              ELSE /\ trace' = [trace EXCEPT ![i] = Append(@, [e |-> "settle", ok |-> ok])]
                   /\ Finish(i, Return(ToolResult(JsonText(Append(results[i], BatchRecord(u, ok))), FALSE)))
                   /\ UNCHANGED idx
    /\ UNCHANGED <<httpVars, startVars, sseVars, listed, restVars, cloud, envKey, proc, exitCode, req>>

\* Mutant of BatchFetchSettled: `results` is one array shared by all
\* invocations instead of a local of each.
BatchFetchSettledShared(i) ==
  \E ok \in BOOLEAN :
    /\ proc = "running"
    /\ pc[i] = "batch_fetch"
    /\ LET u == req[i].args.urls.v[idx[i]]
       IN  /\ results' = [s \in Slots |-> Append(results[s], BatchRecord(u, ok))]
           /\ trace' = [trace EXCEPT ![i] =
                          @ \o <<[e |-> "settle", ok |-> ok], [e |-> "delay", ms |-> BatchDelayMs]>>]
    /\ pc' = [pc EXCEPT ![i] = "batch_delay"]
    /\ UNCHANGED <<httpVars, startVars, sseVars, listed, restVars, cloud, envKey, proc, exitCode, req, idx, log, settled>>

\* batch_scrape: the fetch of args.urls[idx] settles; its record is pushed
\* and the loop suspends on delay(200).
BatchFetchSettled(i) ==
  \E ok \in BOOLEAN :
    /\ proc = "running"
    /\ pc[i] = "batch_fetch"
    /\ LET u == req[i].args.urls.v[idx[i]]
       IN  /\ results' = [results EXCEPT ![i] = Append(@, BatchRecord(u, ok))]
           /\ trace' = [trace EXCEPT ![i] =
                          @ \o <<[e |-> "settle", ok |-> ok], [e |-> "delay", ms |-> BatchDelayMs]>>]
    /\ pc' = [pc EXCEPT ![i] = "batch_delay"]
    /\ UNCHANGED <<httpVars, startVars, sseVars, listed, restVars, cloud, envKey, proc, exitCode, req, idx, log, settled>>

\* Mutant of BatchHasNext: the loop stops one element early.
BatchHasNextOffByOne(urls, k) == k < Len(urls) - 1

\* Whether the for-of loop over args.urls has a next element after idx.
BatchHasNext(urls, k) == k < Len(urls)

\* batch_scrape: the delay elapses; the loop fetches the next URL or ends.
BatchDelayElapsed(i) ==
  /\ proc = "running"
  /\ pc[i] = "batch_delay"
  /\ LET args == req[i].args
         urls == args.urls.v
     IN  IF BatchHasNext(urls, idx[i])
         THEN /\ idx' = [idx EXCEPT ![i] = @ + 1]
              /\ trace' = [trace EXCEPT ![i] =
                             @ \o <<[e |-> "delay_end"],
                                    ScrapeCall(urls[idx[i] + 1], ScrapeOptionsOf(args), ApiKeyOf(req[i]))>>]
              /\ pc' = [pc EXCEPT ![i] = "batch_fetch"]
              /\ UNCHANGED <<log, settled>>
         ELSE /\ trace' = [trace EXCEPT ![i] = Append(@, [e |-> "delay_end"])]
              /\ Finish(i, Return(ToolResult(JsonText(results[i]), FALSE)))
              /\ UNCHANGED idx
  /\ UNCHANGED <<httpVars, startVars, sseVars, listed, restVars, cloud, envKey, proc, exitCode, req, results>>

\* Mutant of ExtractSettled: client.extract is wrapped in withRetry, which
\* calls it again after a rate-limit failure, up to three attempts.
ExtractSettledRetry(i) ==
  \E ok \in BOOLEAN :
    /\ proc = "running"
    /\ pc[i] = "extract"
    /\ IF ~ok /\ Len(SelectSeq(trace[i], LAMBDA ev : ev.e = "call")) < 3
       THEN /\ trace' = [trace EXCEPT ![i] = @ \o <<[e |-> "settle", ok |-> ok], @[1]>>]
            /\ UNCHANGED <<pc, settled, log>>
       ELSE /\ trace' = [trace EXCEPT ![i] = Append(@, [e |-> "settle", ok |-> ok])]
            /\ Finish(i, IF ok
                         THEN Return(ToolResult(JsonText(ExtractResponse), FALSE))
                         ELSE Throw(ExtractError, TRUE))
    /\ UNCHANGED <<httpVars, startVars, sseVars, listed, restVars, cloud, envKey, proc, exitCode, req, idx, results>>

\* extract_data / extract_with_schema: `await client.extract(...)` settles.
ExtractSettled(i) ==
  \E ok \in BOOLEAN :
    /\ proc = "running"
    /\ pc[i] = "extract"
    /\ LET out == IF ok
                  THEN Return(ToolResult(JsonText(ExtractResponse), FALSE))
                  ELSE Throw(ExtractError, TRUE)
       IN  /\ trace' = [trace EXCEPT ![i] = Append(@, [e |-> "settle", ok |-> ok])]
           /\ Finish(i, out)
    /\ UNCHANGED <<httpVars, startVars, sseVars, listed, restVars, cloud, envKey, proc, exitCode, req, idx, results>>

\* The settled result has been handed back to the protocol layer, which sends
\* it as the response; the invocation's locals are gone.
Respond(i) ==
  /\ pc[i] = "done"
  /\ req' = [req EXCEPT ![i] = NoRequest]
  /\ pc' = [pc EXCEPT ![i] = "idle"]
  /\ idx' = [idx EXCEPT ![i] = 0]
  /\ results' = [results EXCEPT ![i] = <<>>]
  /\ trace' = [trace EXCEPT ![i] = <<>>]
  /\ log' = [log EXCEPT ![i] = <<>>]
  /\ settled' = [settled EXCEPT ![i] = <<>>]
  /\ UNCHANGED <<httpVars, startVars, sseVars, listed, restVars, cloud, envKey, proc, exitCode>>

\* Mutant of StartupExits: the check does not look at CLOUD_SERVICE.
StartupExitsAlways(isCloud, key) == ~Truthy(key)

\* The startup check (index.ts 324-327) has run when the first request arrives.
StartupExits(isCloud, key) == ~isCloud /\ ~Truthy(key)

EnvKeys == {Undefined, Str("env-key")}

(***************************************************************************)
(* The session-tracked HTTP transport (runHTTPStreamableServer).           *)
(***************************************************************************)
MaxChannels == 1

MaxInFlight == 1

\* The values randomUUID() returns, in the order it returns them.
SidPool == <<"uuid-1", "uuid-2", "uuid-3", "uuid-4", "uuid-5">>

\* Names every plain object inherits from Object.prototype; `transports` is
\* created as `{}` (index.ts 655), so transports[name] reads the inherited member.
ObjectProtoKeys == {"constructor"}

\* The mcp-session-id header: "" stands for a missing (or empty) header.
SidInputs == {""} \cup {SidPool[k] : k \in 1..MaxChannels} \cup ObjectProtoKeys

Methods == {"POST", "GET"}

\* req.body: a JSON object whose method is 'initialize', or anything else
\* (no body, a non-object, another method).
Bodies == {"initialize", "other"}

HttpRequests == [sid : SidInputs, method : Methods, body : Bodies]

Conns == 1..MaxInFlight

IdleReq == [st |-> "idle"]

\* transports[sessionId] (index.ts 663-664): an own key, an inherited member,
\* or undefined.
Lookup(map, sid) ==
  IF sid \in DOMAIN map THEN [kind |-> "channel", chan |-> map[sid]]
  ELSE IF sid \in ObjectProtoKeys THEN [kind |-> "inherited"]
  ELSE [kind |-> "undefined"]

\* sessionId && transports[sessionId]
HasSession(map, sid) == sid # "" /\ Lookup(map, sid).kind # "undefined"

\* !sessionId && req.method === 'POST' && req.body && typeof req.body === 'object'
\* && req.body.method === 'initialize'
IsInitialize(r) == r.sid = "" /\ r.method = "POST" /\ r.body = "initialize"

\* res.status(400).json({ error: { code: -32000 } })
InvalidSession == [status |-> 400, code |-> -32000]

\* res.status(500).json({ error: { code: -32603 } })
InternalError == [status |-> 500, code |-> -32603]

\* The response the channel itself wrote through transport.handleRequest.
ByChannel(c) == [status |-> 0, code |-> 0, chan |-> c]

\* delete map[sid]
Delete(map, sid) == [k \in DOMAIN map \ {sid} |-> map[k]]

\* map[sid] = c
Put(map, sid, c) == [k \in DOMAIN map \cup {sid} |-> IF k = sid THEN c ELSE map[k]]

\* Mutant of OnClose: the handler forgets to delete the key.
OnCloseNoDelete(map, c) == map

\* transport.onclose of channel c (index.ts 682-687).
OnClose(map, c) ==
  LET sid == chans[c].sessionId
  IN  IF sid # "" /\ Lookup(map, sid).kind # "undefined" THEN Delete(map, sid) ELSE map

NewChannel(r) == [sessionId |-> "", closed |-> FALSE, closeCalls |-> 0, by |-> r]

Listening == proc = "running" /\ shut.pc \in {"none", "closing"}

\* A request reaches app.all('/mcp'): the handler runs to its first await or
\* to its response (index.ts 658-706).
HttpArrive(k) ==
  /\ Listening
  /\ hreqs[k].st = "idle"
  /\ \E r \in HttpRequests :
       LET found == Lookup(transports, r.sid)
       IN  IF HasSession(transports, r.sid)
           THEN IF found.kind = "channel"
                THEN \* transport.handleRequest(req, res, req.body) is called
                     /\ hreqs' = [hreqs EXCEPT ![k] =
                                    [st |-> "handle", r |-> r, branch |-> "existing",
                                     chan |-> found.chan, resp |-> <<>>]]
                     /\ UNCHANGED chans
                ELSE \* the inherited member has no handleRequest: TypeError, caught
                     /\ hreqs' = [hreqs EXCEPT ![k] =
                                    [st |-> "responded", r |-> r, branch |-> "existing",
                                     chan |-> 0, resp |-> <<InternalError>>]]
                     /\ UNCHANGED chans
           ELSE IF IsInitialize(r)
           THEN /\ Len(chans) < MaxChannels
                /\ chans' = Append(chans, NewChannel(r))
                /\ hreqs' = [hreqs EXCEPT ![k] =
                               [st |-> "connect", r |-> r, branch |-> "new",
                                chan |-> Len(chans) + 1, resp |-> <<>>]]
           ELSE /\ hreqs' = [hreqs EXCEPT ![k] =
                               [st |-> "responded", r |-> r, branch |-> "rejected",
                                chan |-> 0, resp |-> <<InvalidSession>>]]
                /\ UNCHANGED chans
  /\ UNCHANGED <<toolVars, startVars, sseVars, listed, restVars, transports, nextSid, shut>>

\* `await server.connect(transport)` settles (index.ts 690-692).
HttpConnectSettled(k) ==
  /\ hreqs[k].st = "connect"
  /\ proc = "running"
  /\ \E ok \in BOOLEAN :
       IF ok
       THEN hreqs' = [hreqs EXCEPT ![k].st = "handle"]
       ELSE hreqs' = [hreqs EXCEPT ![k].st = "responded", ![k].resp = <<InternalError>>]
  /\ UNCHANGED <<toolVars, startVars, sseVars, listed, restVars, transports, chans, nextSid, shut>>

\* While handling the initialize request the channel draws its session id
\* and calls onsessioninitialized (index.ts 673-679).
HttpSessionInitialized(k) ==
  /\ hreqs[k].st = "handle"
  /\ hreqs[k].branch = "new"
  /\ proc = "running"
  /\ chans[hreqs[k].chan].sessionId = ""
  /\ nextSid < Len(SidPool)
  /\ LET sid == SidPool[nextSid + 1]
         c == hreqs[k].chan
     IN  /\ chans' = [chans EXCEPT ![c].sessionId = sid]
         /\ transports' = Put(transports, sid, c)
  /\ nextSid' = nextSid + 1
  /\ UNCHANGED <<toolVars, startVars, sseVars, listed, restVars, hreqs, shut>>

\* Mutant of CatchResponse: the catch block answers without looking at
\* res.headersSent.
CatchResponseAlways(headersSent) == <<InternalError>>

\* The catch block of the /mcp handler: `if (!res.headersSent)` it answers
\* 500 / -32603 (index.ts 707-718).
CatchResponse(headersSent) == IF headersSent THEN <<>> ELSE <<InternalError>>

\* `await transport.handleRequest(...)` settles: the channel has written the
\* response, or it threw before or after the response was started.
HttpHandleSettled(k) ==
  /\ hreqs[k].st = "handle"
  /\ proc = "running"
  /\ \E outcome \in {"responded", "threw", "threw_after_headers"} :
       LET written == IF outcome = "threw" THEN <<>> ELSE <<ByChannel(hreqs[k].chan)>>
       IN  hreqs' = [hreqs EXCEPT ![k].st = "responded",
                                  ![k].resp =
                                     IF outcome = "responded" THEN written
                                     ELSE written \o CatchResponse(written # <<>>)]
  /\ UNCHANGED <<toolVars, startVars, sseVars, listed, restVars, transports, chans, nextSid, shut>>

\* The response is on the wire; the connection can carry the next request.
HttpDone(k) ==
  /\ hreqs[k].st = "responded"
  /\ hreqs' = [hreqs EXCEPT ![k] = IdleReq]
  /\ UNCHANGED <<toolVars, startVars, sseVars, listed, restVars, transports, chans, nextSid, shut>>

\* The paths runHTTPStreamableServer registers a handler for (index.ts 658).
HttpRoutes == {"/mcp"}

\* What Express answers for a path no handler is registered for.
NotFound == [status |-> 404, body |-> "Cannot GET"]

\* GET `path` reaches the HTTP app: only a registered path has a handler.
RouteGet(path) == IF path \in HttpRoutes THEN [status |-> 0, body |-> "handler"] ELSE NotFound

\* A GET /health request arrives and is answered.
HealthGet ==
  /\ Listening
  /\ health' = <<RouteGet("/health")>>
  /\ UNCHANGED <<toolVars, httpVars, startVars, sseVars, listed, fetchVars, retryVars>>

\* An initialized channel closes (a DELETE it handled, or its peer went
\* away): its onclose handler runs.
ChannelClose(c) ==
  /\ proc = "running"
  /\ chans[c].sessionId # ""
  /\ ~chans[c].closed
  /\ chans' = [chans EXCEPT ![c].closed = TRUE]
  /\ transports' = OnClose(transports, c)
  /\ UNCHANGED <<toolVars, startVars, sseVars, listed, restVars, hreqs, nextSid, shut>>

\* Position of a session id in the order randomUUID() produced them, which
\* is the order the keys were inserted in and the order for-in visits them.
RECURSIVE IndexOf(_, _)
IndexOf(sid, k) ==
  IF k > Len(SidPool) THEN 0 ELSE IF SidPool[k] = sid THEN k ELSE IndexOf(sid, k + 1)

FirstKey(keys) == CHOOSE a \in keys : \A b \in keys : IndexOf(a, 1) <= IndexOf(b, 1)

\* The keys `for (const sessionId in transports)` visits: those present when
\* the loop starts; a key added while the loop runs is not visited.
ForInKeys(map) == DOMAIN map

NoShutdown == [pc |-> "none", pending |-> {}, cur |-> "", ok |-> FALSE]

\* One turn of the loop, run with the session map `map` and the keys still to
\* visit: a key deleted meanwhile is skipped; close() is called on the channel
\* of the first key left and the handler suspends on it (ok: whether that
\* close() will succeed), or no key is left and appServer.close() is called.
LoopStep(map, pending, ok) ==
  LET live == pending \cap DOMAIN map
  IN  IF live = {}
      THEN /\ shut' = [pc |-> "closed_listen", pending |-> {}, cur |-> "", ok |-> FALSE]
           /\ transports' = map
           /\ UNCHANGED chans
      ELSE LET sid == FirstKey(live)
               c == map[sid]
           IN  /\ shut' = [pc |-> "closing", pending |-> live \ {sid}, cur |-> sid, ok |-> ok]
               /\ chans' = [chans EXCEPT ![c].closeCalls = @ + 1, ![c].closed = @ \/ ok]
               /\ transports' = IF ok THEN OnClose(map, c) ELSE map

\* SIGINT is delivered (index.ts 726-731): the handler runs up to its first
\* `await transports[sessionId].close()`, or to appServer.close().
Sigint ==
  /\ proc = "running"
  /\ shut.pc = "none"
  /\ \E ok \in BOOLEAN : LoopStep(transports, ForInKeys(transports), ok)
  /\ UNCHANGED <<toolVars, startVars, sseVars, listed, restVars, hreqs, nextSid>>

\* `await transports[sessionId].close()` settles: the key is deleted, or the
\* error is logged (index.ts 731-738); the loop takes its next turn.
ShutdownResume ==
  /\ proc = "running"
  /\ shut.pc = "closing"
  /\ \E ok \in BOOLEAN :
       LoopStep(IF shut.ok THEN Delete(transports, shut.cur) ELSE transports,
                shut.pending, ok)
  /\ UNCHANGED <<toolVars, startVars, sseVars, listed, restVars, hreqs, nextSid>>

\* Every connection has ended: appServer.close's callback calls process.exit(0).
ShutdownExit ==
  /\ proc = "running"
  /\ shut.pc = "closed_listen"
  /\ \A k \in Conns : hreqs[k].st = "idle"
  /\ proc' = "exited"
  /\ exitCode' = 0
  /\ UNCHANGED <<httpVars, startVars, sseVars, listed, restVars, cloud, envKey, req, pc, idx, results, trace, log, settled>>

(***************************************************************************)
(* Startup: the transport selection at the end of the module               *)
(* (index.ts 748-777) and runLocalServer (index.ts 590-618).               *)
(***************************************************************************)
\* Mutant of Selected: the flags are tested by independent ifs instead of
\* one if / else-if chain.
SelectedIndependent(isCloud, sse, http) ==
  (IF isCloud THEN {"versioned_sse"} ELSE {})
    \cup (IF sse THEN {"sse_local"} ELSE {})
    \cup (IF http THEN {"http_streamable"} ELSE {})
    \cup (IF ~isCloud /\ ~sse /\ ~http THEN {"stdio"} ELSE {})

\* The run function the if / else-if chain calls, as the set of bindings it
\* starts.
Selected(isCloud, sse, http) ==
  IF isCloud THEN {"versioned_sse"}
  ELSE IF sse THEN {"sse_local"}
  ELSE IF http THEN {"http_streamable"}
  ELSE {"stdio"}

Exit(code) == proc' = "exited" /\ exitCode' = code

\* The top-level if / else-if chain runs: the cloud branch first awaits the
\* dynamic import, runLocalServer suspends on server.connect, the two HTTP
\* servers are listening once their run function returns.
SelectTransport ==
  /\ proc = "running"
  /\ boot = "select"
  /\ LET sel == Selected(cloud, sseLocal, httpStreamable)
     IN  /\ bindings' = sel \ {"versioned_sse"}
         /\ boot' = IF "versioned_sse" \in sel THEN "import"
                    ELSE IF "stdio" \in sel THEN "connect"
                    ELSE "up"
  /\ UNCHANGED <<toolVars, httpVars, sseVars, listed, restVars, sseLocal, httpStreamable>>

\* import('./versioned-server.js') settles: runVersionedSSECloudServer is
\* called, or the import failed and the process exits with status 1.
ImportSettled ==
  /\ proc = "running"
  /\ boot = "import"
  /\ \E ok \in BOOLEAN :
       IF ok
       THEN /\ bindings' = bindings \cup {"versioned_sse"}
            /\ boot' = "up"
            /\ UNCHANGED <<proc, exitCode>>
       ELSE /\ Exit(1)
            /\ boot' = "failed"
            /\ UNCHANGED bindings
  /\ UNCHANGED <<httpVars, sseVars, listed, restVars, sseLocal, httpStreamable,
                 cloud, envKey, req, pc, idx, results, trace, log, settled>>

\* runLocalServer: `await server.connect(transport)` settles; a failure is
\* caught and the process exits with status 1 (index.ts 604-617).
StdioConnectSettled ==
  /\ proc = "running"
  /\ boot = "connect"
  /\ \E ok \in BOOLEAN :
       IF ok
       THEN boot' = "up" /\ UNCHANGED <<proc, exitCode>>
       ELSE boot' = "failed" /\ Exit(1)
  /\ UNCHANGED <<httpVars, sseVars, listed, restVars, sseLocal, httpStreamable, bindings,
                 cloud, envKey, req, pc, idx, results, trace, log, settled>>

(***************************************************************************)
(* The push-stream transport (runSSELocalServer, index.ts 619-650).        *)
(***************************************************************************)
MaxStreams == 2

MaxPosts == 1

PostConns == 1..MaxPosts

IdlePost == [st |-> "idle"]

\* The statuses SSEServerTransport.handlePostMessage answers with.
PostStatuses == {202, 400, 500}

SseServing == proc = "running" /\ "sse_local" \in bindings

\* GET /sse: a new SSEServerTransport over this response replaces the tracked
\* one, the close listener is registered, server.connect is awaited (nothing
\* follows the await).
SseGet ==
  /\ SseServing
  /\ Len(streams) < MaxStreams
  /\ streams' = Append(streams, [closed |-> FALSE])
  /\ transport' = Len(streams) + 1
  /\ UNCHANGED <<toolVars, httpVars, startVars, listed, restVars, posts>>

\* Mutant of Untrack: the close listener leaves the variable alone.
UntrackNever(tracked, s) == tracked

\* res.on('close', () => { transport = null }) of stream s.
Untrack(tracked, s) == 0

\* The response of stream s closes: its close listener runs.
SseClose(s) ==
  /\ SseServing
  /\ ~streams[s].closed
  /\ streams' = [streams EXCEPT ![s].closed = TRUE]
  /\ transport' = Untrack(transport, s)
  /\ UNCHANGED <<toolVars, httpVars, startVars, listed, restVars, posts>>

\* POST /messages: with a tracked transport the request is handed to its
\* handlePostMessage (not awaited); without one the handler returns without
\* touching the response.
SsePost(k) ==
  /\ SseServing
  /\ posts[k].st = "idle"
  /\ posts' = [posts EXCEPT ![k] =
                 IF transport # 0
                 THEN [st |-> "handling", chan |-> transport, resp |-> <<>>]
                 ELSE [st |-> "dropped", chan |-> 0, resp |-> <<>>]]
  /\ UNCHANGED <<toolVars, httpVars, startVars, listed, restVars, transport, streams>>

\* handlePostMessage writes the response.
SsePostHandled(k) ==
  /\ SseServing
  /\ posts[k].st = "handling"
  /\ \E status \in PostStatuses :
       posts' = [posts EXCEPT ![k].st = "responded", ![k].resp = <<status>>]
  /\ UNCHANGED <<toolVars, httpVars, startVars, listed, restVars, transport, streams>>

\* The exchange is over: the response was sent, or the client gave up on a
\* request nothing will ever answer.
SsePostEnd(k) ==
  /\ posts[k].st \in {"responded", "dropped"}
  /\ posts' = [posts EXCEPT ![k] = IdlePost]
  /\ UNCHANGED <<toolVars, httpVars, startVars, listed, restVars, transport, streams>>

(***************************************************************************)
(* The list-tools handler (index.ts 26-116, 415-427).                      *)
(***************************************************************************)
Tool(name, description, required) ==
  [name |-> name, description |-> description, required |-> required]

SCRAPE_TOOL == Tool("scrape_page", "Extract content from a single webpage", <<"url">>)

BATCH_SCRAPE_TOOL ==
  Tool("batch_scrape", "Scrape multiple URLs in a single request", <<"urls">>)

EXTRACT_DATA_TOOL ==
  Tool("extract_data", "Extract structured data from webpages using LLM",
       <<"urls", "prompt">>)

EXTRACT_WITH_SCHEMA_TOOL ==
  Tool("extract_with_schema", "Extract structured data using a JSON schema",
       <<"urls", "schema">>)

\* The tools the documentation describes as available (README, "Available
\* Tools"; the parameter table of the specification).
DocumentedTools ==
  {"scrape_page", "batch_scrape", "extract_data", "extract_with_schema", "screenshot"}

\* Mutant of listToolsRequestHandler: two registry entries are swapped.
listToolsSwapped ==
  [tools |-> <<SCRAPE_TOOL, EXTRACT_DATA_TOOL, BATCH_SCRAPE_TOOL, EXTRACT_WITH_SCHEMA_TOOL>>]

listToolsRequestHandler ==
  [tools |-> <<SCRAPE_TOOL, BATCH_SCRAPE_TOOL, EXTRACT_DATA_TOOL, EXTRACT_WITH_SCHEMA_TOOL>>]

\* A list-tools request is served.
ListTools ==
  /\ proc = "running"
  /\ listed' = <<listToolsRequestHandler>>
  /\ UNCHANGED <<toolVars, httpVars, startVars, sseVars, restVars>>

(***************************************************************************)
(* withRetry (index.ts 382-412) and CONFIG.retry (index.ts 336-342).       *)
(***************************************************************************)
DefaultMaxAttempts == 3

DefaultInitialDelay == 1000

DefaultMaxDelay == 10000

DefaultBackoffFactor == 2

\* Number(process.env.X) || dflt: an unset variable (NaN) and 0 give dflt.
NumberOr(env, dflt) == IF env.t = "number" /\ env.v # 0 THEN env.v ELSE dflt

\* CONFIG.retry for the four environment variables.
RetryConfig(ma, id, md, bf) ==
  [maxAttempts |-> NumberOr(ma, DefaultMaxAttempts),
   initialDelay |-> NumberOr(id, DefaultInitialDelay),
   maxDelay |-> NumberOr(md, DefaultMaxDelay),
   backoffFactor |-> NumberOr(bf, DefaultBackoffFactor)]

RetryConfigs ==
  {RetryConfig(ma, id, md, bf) :
     ma \in {Undefined, Num(0), Num(-1), Num(1), Num(2), Num(4)},
     id \in {Undefined, Num(500)},
     md \in {Undefined, Num(1500)},
     bf \in {Undefined, Num(1), Num(3)}}

\* A value the operation throws: an Error with a message (a sequence of
\* words), or a bare string.
Err(words) == [isError |-> TRUE, message |-> words]

Thrown(words) == [isError |-> FALSE, message |-> words]

OperationResults ==
  {[ok |-> TRUE, value |-> "result"]}
    \cup {[ok |-> FALSE, error |-> e] :
            e \in {Err(<<"rate", "limit", "exceeded">>),
                   Err(<<"Request", "failed", "with", "status", "code", "429">>),
                   Err(<<"Rate", "Limit">>),
                   Err(<<"Request", "timed", "out">>),
                   Thrown(<<"rate", "limit">>)}}

\* message.includes(pattern), both as sequences of words.
Includes(words, pattern) ==
  \E p \in 0..(Len(words) - Len(pattern)) :
    \A q \in 1..Len(pattern) : words[p + q] = pattern[q]

\* error instanceof Error && (message.includes('rate limit') ||
\* message.includes('429'))
isRateLimit(error) ==
  error.isError /\ (Includes(error.message, <<"rate", "limit">>) \/ Includes(error.message, <<"429">>))

\* Mutant of ShouldRetry: the comparison is <= instead of <.
ShouldRetryOffByOne(error, n, cfg) == isRateLimit(error) /\ n <= cfg.maxAttempts

\* isRateLimit && attempt < CONFIG.retry.maxAttempts
ShouldRetry(error, n, cfg) == isRateLimit(error) /\ n < cfg.maxAttempts

\* Math.pow(b, e) for a whole e >= 0.
RECURSIVE Pow(_, _)
Pow(b, e) == IF e = 0 THEN 1 ELSE b * Pow(b, e - 1)

\* Math.min(a, b)
Min(a, b) == IF a <= b THEN a ELSE b

\* Mutant of DelayMs: the exponent is attempt instead of attempt - 1.
DelayMsNextPower(cfg, n) == Min(cfg.initialDelay * Pow(cfg.backoffFactor, n), cfg.maxDelay)

\* Math.min(initialDelay * Math.pow(backoffFactor, attempt - 1), maxDelay)
DelayMs(cfg, n) == Min(cfg.initialDelay * Pow(cfg.backoffFactor, n - 1), cfg.maxDelay)

\* `await operation()` settles: the result is returned, or the error is
\* rethrown, or the delay is computed and awaited.
RetryOperationSettled ==
  /\ retryPc = "operation"
  /\ \E out \in OperationResults :
       LET called == Append(retryTrace, [e |-> "operation", attempt |-> attempt, out |-> out])
       IN  IF out.ok
           THEN /\ retryTrace' = called
                /\ retryOut' = <<[kind |-> "resolve", value |-> out.value]>>
                /\ retryPc' = "done"
           ELSE IF ShouldRetry(out.error, attempt, retryCfg)
           THEN /\ retryTrace' = Append(called, [e |-> "delay", ms |-> DelayMs(retryCfg, attempt)])
                /\ retryOut' = retryOut
                /\ retryPc' = "delay"
           ELSE /\ retryTrace' = called
                /\ retryOut' = <<[kind |-> "reject", error |-> out.error]>>
                /\ retryPc' = "done"
  /\ UNCHANGED <<toolVars, httpVars, startVars, sseVars, listed, health, fetchVars,
                 retryCfg, attempt>>

\* `await delay(delayMs)` ends: withRetry(operation, context, attempt + 1).
RetryDelayElapsed ==
  /\ retryPc = "delay"
  /\ attempt' = attempt + 1
  /\ retryPc' = "operation"
  /\ UNCHANGED <<toolVars, httpVars, startVars, sseVars, listed, health, fetchVars,
                 retryCfg, retryTrace, retryOut>>

RetryIdle ==
  /\ retryCfg = RetryConfig(Undefined, Undefined, Undefined, Undefined)
  /\ attempt = 1
  /\ retryPc = "done"
  /\ retryTrace = <<>>
  /\ retryOut = <<>>

(***************************************************************************)
(* Rotation Pools and the Page Fetcher of the local variant.  Their code   *)
(* is not part of src/; they are modelled from sections 4.3 and 4.4 of     *)
(* the specification.                                                      *)
(***************************************************************************)
MaxPorts == 3

MaxCalls == 4

MaxFetches == 2

\* First port of the configured range (https://h.example:10001-10003).
FirstPort == 10001

Proxy(port) == [host |-> "h.example", port |-> port]

\* Proxy pool construction: one entry per port of [start, end], ascending.
ExpandRange(start, end) == [k \in 1..(end - start + 1) |-> Proxy(start + k - 1)]

RotationPool(items) == [items |-> items, cursor |-> 0]

UserAgents == <<"agent-1", "agent-2">>

\* Mutant of PoolNext: the cursor is advanced before the item is read.
PoolNextAdvanceFirst(pool, sentinel) ==
  IF Len(pool.items) = 0
  THEN [ret |-> sentinel, pool |-> pool]
  ELSE LET c == (pool.cursor + 1) % Len(pool.items)
       IN  [ret |-> pool.items[c + 1], pool |-> [pool EXCEPT !.cursor = c]]

\* next(): on an empty pool the sentinel; otherwise items[cursor], and the
\* cursor advances modulo the length.
PoolNext(pool, sentinel) ==
  IF Len(pool.items) = 0
  THEN [ret |-> sentinel, pool |-> pool]
  ELSE [ret |-> pool.items[pool.cursor + 1],
        pool |-> [pool EXCEPT !.cursor = (pool.cursor + 1) % Len(pool.items)]]

FetchSlots == 1..MaxFetches

FetchUrls == {UrlA, UrlBad}

IdleFetch == [st |-> "idle"]

\* The calls whose browser instance is open.
NoBrowsers == {}

Failure(u, msg) == [url |-> u, success |-> FALSE, error |-> msg]

Success(u) == [url |-> u, success |-> TRUE, content |-> ContentOf(PageOf(u))]

\* Mutant of CloseBrowser: the browser is closed on the success path only.
CloseBrowserOnSuccess(bs, b, ok) == IF ok THEN bs \ {b} ELSE bs

\* The finally-style guarantee: the browser is closed on every exit path.
CloseBrowser(bs, b, ok) == bs \ {b}

\* fetchPage / captureScreenshot is called: an invalid URL returns at once,
\* without a browser; otherwise the next proxy and user-agent are taken and
\* the browser launch is awaited.
FetchStart(i) ==
  /\ fetches[i].st = "idle"
  /\ Len(picked) < MaxCalls
  /\ \E op \in {"fetch", "screenshot"}, u \in FetchUrls :
       IF ~isValidUrl(u)
       THEN /\ fetches' = [fetches EXCEPT ![i] =
                             [st |-> "returned", op |-> op, url |-> u, browser |-> 0,
                              result |-> <<Failure(u, "Invalid URL format")>>]]
            /\ UNCHANGED <<proxyPool, uaPool, picked>>
       ELSE LET px == PoolNext(proxyPool, Undefined)
                ua == PoolNext(uaPool, "agent-default")
            IN  /\ proxyPool' = px.pool
                /\ uaPool' = ua.pool
                /\ picked' = Append(picked, [proxy |-> px.ret, ua |-> ua.ret])
                /\ fetches' = [fetches EXCEPT ![i] =
                                 [st |-> "launching", op |-> op, url |-> u, browser |-> 0,
                                  result |-> <<>>]]
  /\ UNCHANGED <<toolVars, httpVars, startVars, sseVars, listed, health, retryVars, browsers>>

\* The browser launch settles.
FetchLaunched(i) ==
  /\ fetches[i].st = "launching"
  /\ \E ok \in BOOLEAN :
       IF ok
       THEN /\ browsers' = browsers \cup {i}
            /\ fetches' = [fetches EXCEPT ![i].st = "navigating", ![i].browser = i]
       ELSE /\ fetches' = [fetches EXCEPT ![i].st = "returned",
                                          ![i].result = <<Failure(fetches[i].url, "Failed to launch")>>]
            /\ UNCHANGED browsers
  /\ UNCHANGED <<toolVars, httpVars, startVars, sseVars, listed, health, retryVars,
                 proxyPool, uaPool, picked>>

\* Navigation settles: on a timeout or navigation error the browser is
\* closed and the failure returned.
FetchNavigated(i) ==
  /\ fetches[i].st = "navigating"
  /\ \E ok \in BOOLEAN :
       IF ok
       THEN /\ fetches' = [fetches EXCEPT ![i].st = "extracting"]
            /\ UNCHANGED browsers
       ELSE /\ browsers' = CloseBrowser(browsers, fetches[i].browser, FALSE)
            /\ fetches' = [fetches EXCEPT ![i].st = "returned",
                                          ![i].result = <<Failure(fetches[i].url, "Navigation timeout")>>]
  /\ UNCHANGED <<toolVars, httpVars, startVars, sseVars, listed, health, retryVars,
                 proxyPool, uaPool, picked>>

\* Extraction (or the capture of the image) settles: the browser is closed
\* and the content or the failure returned.
FetchExtracted(i) ==
  /\ fetches[i].st = "extracting"
  /\ \E ok \in BOOLEAN :
       /\ browsers' = CloseBrowser(browsers, fetches[i].browser, ok)
       /\ fetches' = [fetches EXCEPT ![i].st = "returned",
                                     ![i].result =
                                        IF ok THEN <<Success(fetches[i].url)>>
                                        ELSE <<Failure(fetches[i].url, "Extraction failed")>>]
  /\ UNCHANGED <<toolVars, httpVars, startVars, sseVars, listed, health, retryVars,
                 proxyPool, uaPool, picked>>

\* The caller has taken the result.
FetchReturn(i) ==
  /\ fetches[i].st = "returned"
  /\ fetches' = [fetches EXCEPT ![i] = IdleFetch]
  /\ UNCHANGED <<toolVars, httpVars, startVars, sseVars, listed, health, retryVars,
                 proxyPool, uaPool, picked, browsers>>

FetchIdle ==
  /\ proxyPool = RotationPool(<<>>)
  /\ uaPool = RotationPool(UserAgents)
  /\ picked = <<>>
  /\ fetches = [i \in FetchSlots |-> IdleFetch]
  /\ browsers = NoBrowsers

RestIdle ==
  /\ health = <<>>
  /\ FetchIdle
  /\ RetryIdle

(***************************************************************************)
(* Specifications.                                                         *)
(***************************************************************************)
HttpIdle ==
  /\ transports = <<>>
  /\ chans = <<>>
  /\ hreqs = [k \in Conns |-> IdleReq]
  /\ nextSid = 0
  /\ shut = NoShutdown

SseIdle ==
  /\ transport = 0
  /\ streams = <<>>
  /\ posts = [k \in PostConns |-> IdlePost]

ToolIdle ==
  /\ listed = <<>>
  /\ req = [i \in {1} |-> NoRequest]
  /\ pc = [i \in {1} |-> "idle"]
  /\ idx = [i \in {1} |-> 0]
  /\ results = [i \in {1} |-> <<>>]
  /\ trace = [i \in {1} |-> <<>>]
  /\ log = [i \in {1} |-> <<>>]
  /\ settled = [i \in {1} |-> <<>>]

\* The call-tool handler, one invocation at a time, under every environment.
Init ==
  /\ cloud \in BOOLEAN
  /\ envKey \in EnvKeys
  /\ proc = IF StartupExits(cloud, envKey) THEN "exited" ELSE "running"
  /\ exitCode = IF StartupExits(cloud, envKey) THEN 1 ELSE -1
  /\ sseLocal = FALSE
  /\ httpStreamable = FALSE
  /\ boot = IF StartupExits(cloud, envKey) THEN "failed" ELSE "up"
  /\ bindings = IF StartupExits(cloud, envKey) THEN {} ELSE Selected(cloud, FALSE, FALSE)
  /\ ToolIdle
  /\ HttpIdle
  /\ SseIdle
  /\ RestIdle

Next ==
  \/ \E i \in Slots : CallTool(i)
  \/ \E i \in Slots : ScrapeSettled(i)
  \/ \E i \in Slots : BatchFetchSettled(i)
  \/ \E i \in Slots : BatchDelayElapsed(i)
  \/ \E i \in Slots : ExtractSettled(i)
  \/ \E i \in Slots : Respond(i)
  \/ ListTools

Spec == Init /\ [][Next]_vars

\* The session-tracked HTTP transport (HTTP_STREAMABLE_SERVER=true).
HttpInit ==
  /\ cloud = FALSE
  /\ envKey = Str("env-key")
  /\ proc = "running"
  /\ exitCode = -1
  /\ sseLocal = FALSE
  /\ httpStreamable = TRUE
  /\ boot = "up"
  /\ bindings = Selected(FALSE, FALSE, TRUE)
  /\ ToolIdle
  /\ HttpIdle
  /\ SseIdle
  /\ RestIdle

HttpNext ==
  \/ \E k \in Conns : HttpArrive(k)
  \/ \E k \in Conns : HttpConnectSettled(k)
  \/ \E k \in Conns : HttpSessionInitialized(k)
  \/ \E k \in Conns : HttpHandleSettled(k)
  \/ \E k \in Conns : HttpDone(k)
  \/ \E c \in DOMAIN chans : ChannelClose(c)
  \/ Sigint
  \/ ShutdownResume
  \/ ShutdownExit
  \/ HealthGet

SpecHttp == HttpInit /\ [][HttpNext]_vars

\* Process start in every environment, then the push-stream transport
\* (SSE_LOCAL=true).
SseInit ==
  /\ cloud \in BOOLEAN
  /\ envKey \in EnvKeys
  /\ sseLocal \in BOOLEAN
  /\ httpStreamable \in BOOLEAN
  /\ proc = IF StartupExits(cloud, envKey) THEN "exited" ELSE "running"
  /\ exitCode = IF StartupExits(cloud, envKey) THEN 1 ELSE -1
  /\ boot = IF StartupExits(cloud, envKey) THEN "failed" ELSE "select"
  /\ bindings = {}
  /\ ToolIdle
  /\ HttpIdle
  /\ SseIdle
  /\ RestIdle

SseNext ==
  \/ SelectTransport
  \/ ImportSettled
  \/ StdioConnectSettled
  \/ SseGet
  \/ \E s \in DOMAIN streams : SseClose(s)
  \/ \E k \in PostConns : SsePost(k)
  \/ \E k \in PostConns : SsePostHandled(k)
  \/ \E k \in PostConns : SsePostEnd(k)

SpecSse == SseInit /\ [][SseNext]_vars

MaxInvocations == 2

\* Two batch_scrape requests with different keys and URL orders, and a
\* scrape_page request that carries no key.
ConcRequests ==
  {[name |-> "batch_scrape",
    args |-> MkArgs(Undefined, Arr(<<UrlA, UrlB>>), Undefined, Undefined, Undefined),
    metaKey |-> Str("key-1")],
   [name |-> "batch_scrape",
    args |-> MkArgs(Undefined, Arr(<<UrlB, UrlA>>), Undefined, Undefined, Undefined),
    metaKey |-> Str("key-2")],
   [name |-> "scrape_page",
    args |-> MkArgs(Str(UrlA), Undefined, Undefined, Undefined, Undefined),
    metaKey |-> Undefined]}

CallToolConc(i) == CallToolFrom(i, ConcRequests)

\* Concurrent invocations of the call-tool handler, as concurrent sessions
\* of one process issue them.
ConcInit ==
  /\ cloud \in BOOLEAN
  /\ envKey = Str("env-key")
  /\ proc = "running"
  /\ exitCode = -1
  /\ sseLocal = FALSE
  /\ httpStreamable = FALSE
  /\ boot = "up"
  /\ bindings = Selected(cloud, FALSE, FALSE)
  /\ listed = <<>>
  /\ req = [i \in 1..MaxInvocations |-> NoRequest]
  /\ pc = [i \in 1..MaxInvocations |-> "idle"]
  /\ idx = [i \in 1..MaxInvocations |-> 0]
  /\ results = [i \in 1..MaxInvocations |-> <<>>]
  /\ trace = [i \in 1..MaxInvocations |-> <<>>]
  /\ log = [i \in 1..MaxInvocations |-> <<>>]
  /\ settled = [i \in 1..MaxInvocations |-> <<>>]
  /\ HttpIdle
  /\ SseIdle
  /\ RestIdle

ConcNext ==
  \/ \E i \in Slots : CallToolConc(i)
  \/ \E i \in Slots : ScrapeSettled(i)
  \/ \E i \in Slots : BatchFetchSettled(i)
  \/ \E i \in Slots : BatchDelayElapsed(i)
  \/ \E i \in Slots : Respond(i)

SpecConc == ConcInit /\ [][ConcNext]_vars

\* withRetry called once, under every configuration; every call of the
\* operation settles and every delay ends.
RetryInit ==
  /\ cloud = FALSE
  /\ envKey = Str("env-key")
  /\ proc = "running"
  /\ exitCode = -1
  /\ sseLocal = FALSE
  /\ httpStreamable = FALSE
  /\ boot = "up"
  /\ bindings = Selected(FALSE, FALSE, FALSE)
  /\ ToolIdle
  /\ HttpIdle
  /\ SseIdle
  /\ health = <<>>
  /\ FetchIdle
  /\ retryCfg \in RetryConfigs
  /\ attempt = 1
  /\ retryPc = "operation"
  /\ retryTrace = <<>>
  /\ retryOut = <<>>

RetryNext ==
  \/ RetryOperationSettled
  \/ RetryDelayElapsed

SpecRetry ==
  /\ RetryInit
  /\ [][RetryNext]_vars
  /\ WF_vars(RetryOperationSettled)
  /\ WF_vars(RetryDelayElapsed)

\* Concurrent fetchPage / captureScreenshot calls over the shared pools.
FetchInit ==
  /\ cloud = FALSE
  /\ envKey = Str("env-key")
  /\ proc = "running"
  /\ exitCode = -1
  /\ sseLocal = FALSE
  /\ httpStreamable = FALSE
  /\ boot = "up"
  /\ bindings = Selected(FALSE, FALSE, FALSE)
  /\ ToolIdle
  /\ HttpIdle
  /\ SseIdle
  /\ health = <<>>
  /\ RetryIdle
  /\ \E n \in 0..MaxPorts : proxyPool = RotationPool(ExpandRange(FirstPort, FirstPort + n - 1))
  /\ uaPool = RotationPool(UserAgents)
  /\ picked = <<>>
  /\ fetches = [i \in FetchSlots |-> IdleFetch]
  /\ browsers = NoBrowsers

FetchNext ==
  \/ \E i \in FetchSlots : FetchStart(i)
  \/ \E i \in FetchSlots : FetchLaunched(i)
  \/ \E i \in FetchSlots : FetchNavigated(i)
  \/ \E i \in FetchSlots : FetchExtracted(i)
  \/ \E i \in FetchSlots : FetchReturn(i)

SpecFetch == FetchInit /\ [][FetchNext]_vars

(***************************************************************************)
(* Properties of the call-tool handler (checked under Spec).               *)
(***************************************************************************)
Done(i) == pc[i] = "done"

ValueOf(i) == settled[i][1].value

TextOf(i) == ValueOf(i).content[1].text

\* The upstream calls invocation i has issued so far.
CallsOf(i) == SelectSeq(trace[i], LAMBDA ev : ev.e = "call")

ArgsPresent(i) == Truthy(req[i].args)

\* An API key is available to the invocation (index.ts 435-441).
KeyAvailable(i) == cloud => Truthy(req[i].metaKey)

HasUrlArray(i) == ArgsPresent(i) /\ IsArray(req[i].args.urls)

WellFormedResult(v) ==
  /\ DOMAIN v = {"content", "isError"}
  /\ v.isError \in BOOLEAN
  /\ Len(v.content) = 1
  /\ v.content[1].type = "text"
  /\ v.content[1].text.fmt \in {"plain", "json"}

\* C1: every call-tool request, whatever its name, arguments and upstream
\* outcome, ends with exactly one result {content: [one text block],
\* isError: boolean}; the handler's promise never rejects, and nothing is
\* returned before the handler has ended.
C1_OneWellFormedResult ==
  \A i \in Slots :
    /\ Done(i) => /\ Len(settled[i]) = 1
                  /\ settled[i][1].kind = "resolve"
                  /\ WellFormedResult(ValueOf(i))
    /\ ~Done(i) => settled[i] = <<>>

\* C1 witness: a scrape_page invocation whose upstream call failed has ended
\* with an error result.
C1_Witness ==
  \E i \in Slots :
    /\ Done(i)
    /\ req[i].name = "scrape_page"
    /\ Len(trace[i]) = 2
    /\ ~trace[i][2].ok
    /\ ValueOf(i).isError

UnknownToolText(name) == PlainText(<<"Unknown tool:", " ", name>>)

NoFaultLogged(i) == \A p \in 1..Len(log[i]) : log[i][p].kind # "failed"

\* C2 as stated: every request whose name is not a registered tool, with
\* arguments present or absent, ends with isError=true and the text
\* "Unknown tool: <name>", without a fault and without an upstream call.
C2_Original ==
  \A i \in Slots :
    (Done(i) /\ req[i].name \notin ToolNames) =>
      /\ ValueOf(i) = ToolResult(UnknownToolText(req[i].name), TRUE)
      /\ NoFaultLogged(i)
      /\ CallsOf(i) = <<>>

\* C2 amended: a request whose name is not a registered tool, whose arguments
\* are present and for which an API key is available ends with isError=true
\* and the text "Unknown tool: <name>", without a fault and without an
\* upstream call; with absent arguments it ends with the caught fault
\* "Error: No arguments provided" instead, again without an upstream call.
C2_UnknownTool ==
  \A i \in Slots :
    (Done(i) /\ req[i].name \notin ToolNames /\ KeyAvailable(i)) =>
      /\ ArgsPresent(i) => /\ ValueOf(i) = ToolResult(UnknownToolText(req[i].name), TRUE)
                           /\ NoFaultLogged(i)
      /\ ~ArgsPresent(i) =>
           ValueOf(i) = ToolResult(PlainText(<<"Error:", " ", "No arguments provided">>), TRUE)
      /\ CallsOf(i) = <<>>

\* C2 witness: a call of the unregistered tool "screenshot" with arguments
\* present has ended with an error result.
C2_Witness ==
  \E i \in Slots :
    /\ Done(i)
    /\ req[i].name = "screenshot"
    /\ ArgsPresent(i)
    /\ KeyAvailable(i)
    /\ ValueOf(i).isError

IsBatch(i) == req[i].name = "batch_scrape" /\ pc[i] \in {"batch_fetch", "batch_delay", "done"}

\* C6: within one batch_scrape invocation the upstream fetches are issued in
\* input order and never overlap: the trace is fetch 1, its settlement, a
\* delay, the delay's end, fetch 2, ... with fetch j carrying URL j.
C6_SequentialInOrder ==
  \A i \in Slots :
    IsBatch(i) =>
      \A p \in 1..Len(trace[i]) :
        LET j == ((p - 1) \div 4) + 1
            m == (p - 1) % 4
            ev == trace[i][p]
        IN  /\ j <= Len(req[i].args.urls.v)
            /\ m = 0 => ev.e = "call" /\ ev.op = "scrape" /\ ev.url = req[i].args.urls.v[j]
            /\ m = 1 => ev.e = "settle"
            /\ m = 2 => ev.e = "delay" /\ ev.ms > 0
            /\ m = 3 => ev.e = "delay_end"

\* C6 witness: the fetch of the second URL of a batch has been issued.
C6_Witness ==
  \E i \in Slots :
    /\ req[i].name = "batch_scrape"
    /\ pc[i] = "batch_fetch"
    /\ idx[i] = 2
    /\ Len(CallsOf(i)) = 2

\* C7: a batch_scrape over n URLs that passes the argument checks ends with
\* isError=false and exactly n records, record j carrying URL j; the record
\* of a failed fetch has success=false and that fetch's error message, the
\* record of a successful one success=true; all n fetches were attempted.
C7_OneRecordPerUrl ==
  \A i \in Slots :
    (Done(i) /\ req[i].name = "batch_scrape" /\ KeyAvailable(i) /\ HasUrlArray(i)
       /\ ~NoUrls(req[i].args)) =>
      LET urls == req[i].args.urls.v
      IN  /\ ~ValueOf(i).isError
          /\ TextOf(i).fmt = "json"
          /\ Len(TextOf(i).value) = Len(urls)
          /\ Len(CallsOf(i)) = Len(urls)
          /\ \A j \in 1..Len(urls) :
               LET rec == TextOf(i).value[j]
                   ok == trace[i][4 * (j - 1) + 2].ok
               IN  /\ rec.url = urls[j]
                   /\ rec.success = ok
                   /\ ~ok => rec.error = ErrorOf(urls[j])

\* C7 witness: a two-URL batch has ended whose first fetch failed and whose
\* second fetch succeeded.
C7_Witness ==
  \E i \in Slots :
    /\ Done(i)
    /\ req[i].name = "batch_scrape"
    /\ Len(results[i]) = 2
    /\ ~results[i][1].success
    /\ results[i][2].success

OverLimit(i) ==
  /\ HasUrlArray(i)
  /\ \/ req[i].name = "batch_scrape" /\ Len(req[i].args.urls.v) > 10
     \/ req[i].name = "extract_data" /\ Len(req[i].args.urls.v) > 5
     \/ req[i].name = "extract_with_schema" /\ Len(req[i].args.urls.v) > 10

\* C8 as stated: batch_scrape with more than 10 URLs, extract_data with more
\* than 5 and extract_with_schema with more than 10 make no upstream call and
\* end with an error result.
C8_Original ==
  \A i \in Slots :
    OverLimit(i) =>
      /\ CallsOf(i) = <<>>
      /\ Done(i) => ValueOf(i).isError

HasInvalidUrl(i) ==
  /\ HasUrlArray(i)
  /\ \E j \in 1..Len(req[i].args.urls.v) : ~isValidUrl(req[i].args.urls.v[j])

\* C9 as stated: batch_scrape over a list holding a URL that is not a
\* well-formed http/https URL fetches nothing and ends with an error result
\* naming that URL.
C9_Original ==
  \A i \in Slots :
    (req[i].name = "batch_scrape" /\ HasInvalidUrl(i)) =>
      /\ CallsOf(i) = <<>>
      /\ Done(i) =>
           /\ ValueOf(i).isError
           /\ TextOf(i).fmt = "plain"
           /\ \E p \in 1..Len(TextOf(i).toks) :
                /\ TextOf(i).toks[p] \in Urls
                /\ ~isValidUrl(TextOf(i).toks[p])

\* C10: with an API key available, a request with absent arguments ends, for
\* every tool name, with isError=true and the text "Error: No arguments
\* provided"; the fault is caught (logged, the promise resolves) and no
\* upstream call is made.
C10_NoArguments ==
  \A i \in Slots :
    (pc[i] # "idle" /\ ~ArgsPresent(i) /\ KeyAvailable(i)) =>
      /\ Done(i)
      /\ settled[i][1].kind = "resolve"
      /\ ValueOf(i) = ToolResult(PlainText(<<"Error:", " ", "No arguments provided">>), TRUE)
      /\ ~NoFaultLogged(i)
      /\ CallsOf(i) = <<>>

\* C10 witness: a batch_scrape request without arguments has ended.
C10_Witness ==
  \E i \in Slots :
    /\ Done(i)
    /\ req[i].name = "batch_scrape"
    /\ ~ArgsPresent(i)
    /\ KeyAvailable(i)

\* The arguments of invocation i reach the guard of its tool and fail it.
GuardFails(i) ==
  /\ ArgsPresent(i)
  /\ KeyAvailable(i)
  /\ LET a == req[i].args
         noUrls == ~(IsArray(a.urls) /\ Len(a.urls.v) > 0)
     IN  \/ req[i].name = "scrape_page" /\ a.url.t # "string"
         \/ req[i].name = "batch_scrape" /\ noUrls
         \/ req[i].name = "extract_data" /\ (noUrls \/ ~Truthy(a.prompt))
         \/ req[i].name = "extract_with_schema" /\ (noUrls \/ ~Truthy(a.schema))

\* C11: for each of the four tools, when the arguments fail the tool's guard
\* the invocation ends at once with isError=true and the text
\* "Error: Invalid arguments for <tool>...", and no upstream call is made.
C11_GuardFailure ==
  \A i \in Slots :
    GuardFails(i) =>
      /\ Done(i)
      /\ ValueOf(i).isError
      /\ TextOf(i).fmt = "plain"
      /\ SubSeq(TextOf(i).toks, 1, 2) = <<"Error:", " ">>
      /\ TextOf(i).toks[3] \in {"Invalid arguments for " \o req[i].name,
                                "Invalid arguments for " \o req[i].name \o ":"}
      /\ trace[i] = <<>>

\* C11 witness: an extract_data call with a URL but without a prompt has
\* ended with an error result.
C11_Witness ==
  \E i \in Slots :
    /\ Done(i)
    /\ req[i].name = "extract_data"
    /\ GuardFails(i)
    /\ req[i].args.urls = Arr(<<UrlA>>)
    /\ req[i].args.prompt = Undefined
    /\ ValueOf(i).isError

\* C14: no upstream call is retried: scrape_page issues at most one scrape
\* call, batch_scrape at most one per input URL and exactly one per URL once
\* it has ended, extract_data and extract_with_schema at most one extract
\* call; no call follows a failed one for the same URL, and the only delays
\* are the batch loop's.
C14_NoRetry ==
  \A i \in Slots :
    LET calls == CallsOf(i)
        n == Len(calls)
    IN  /\ req[i].name = "scrape_page" => n <= 1
        /\ req[i].name \in {"extract_data", "extract_with_schema"} =>
             /\ n <= 1
             /\ \A p \in 1..n : calls[p].op = "extract"
        /\ (req[i].name = "batch_scrape" /\ n > 0) =>
             /\ n <= Len(req[i].args.urls.v)
             /\ Done(i) => n = Len(req[i].args.urls.v)
        /\ req[i].name \notin ToolNames => n = 0
        /\ \A p \in 1..Len(trace[i]) :
             /\ trace[i][p].e \in {"call", "settle", "delay", "delay_end"}
             /\ trace[i][p].e = "delay" =>
                  req[i].name = "batch_scrape" /\ trace[i][p].ms = BatchDelayMs

\* C14 witness: an extract_data call whose single upstream call failed with a
\* rate-limit error has ended.
C14_Witness ==
  \E i \in Slots :
    /\ Done(i)
    /\ req[i].name = "extract_data"
    /\ Len(CallsOf(i)) = 1
    /\ Len(trace[i]) = 2
    /\ ~trace[i][2].ok
    /\ TextOf(i) = PlainText(<<"Error:", " ", "Extract failed:", " ", "rate limit exceeded">>)

CompletionsOf(i) == SelectSeq(log[i], LAMBDA l : l.kind = "completed")

\* C18 as stated: every ended invocation has logged exactly one completion
\* entry, as its last entry, carrying the elapsed duration since handler
\* entry and the tool name.
C18_Original ==
  \A i \in Slots :
    Done(i) =>
      /\ Len(CompletionsOf(i)) = 1
      /\ log[i][Len(log[i])].kind = "completed"
      /\ "duration" \in DOMAIN CompletionsOf(i)[1]
      /\ CompletionsOf(i)[1].duration = [from |-> "startTime", to |-> "now"]
      /\ "tool" \in DOMAIN CompletionsOf(i)[1]
      /\ CompletionsOf(i)[1].tool = req[i].name

\* C19 as stated: extract_with_schema with a schema argument that is not a
\* JSON object (a string, a number, true, an array) makes no upstream call
\* and ends with an error result.
C19_Original ==
  \A i \in Slots :
    (req[i].name = "extract_with_schema" /\ ArgsPresent(i)
       /\ req[i].args.schema.t \in {"string", "number", "boolean", "array"}) =>
      /\ CallsOf(i) = <<>>
      /\ Done(i) => ValueOf(i).isError

\* C20 as stated: extract_data with a prompt that is empty or has 10000 or
\* more characters makes no upstream call and ends with an error result;
\* with a URL list and a prompt of 1 to 9999 characters the upstream call is
\* made.
C20_Original ==
  \A i \in Slots :
    (req[i].name = "extract_data" /\ pc[i] # "idle" /\ ArgsPresent(i) /\ KeyAvailable(i)
       /\ req[i].args.prompt.t = "string") =>
      IF validatePrompt(req[i].args.prompt.v)
      THEN ~NoUrls(req[i].args) => Len(CallsOf(i)) = 1
      ELSE /\ CallsOf(i) = <<>>
           /\ Done(i) /\ ValueOf(i).isError

(***************************************************************************)
(* Properties of the session-tracked HTTP transport (checked under         *)
(* SpecHttp).                                                              *)
(***************************************************************************)
\* A request arrives on connection k in this step.
Arrives(k) == hreqs[k].st = "idle" /\ hreqs'[k].st # "idle"

\* C3 as stated: a request that neither carries a session id that is a key
\* of the session map nor is an initialize POST without a session id is
\* answered with code -32000, is handed to no channel, and leaves the session
\* map unchanged.
C3_Original ==
  [][\A k \in Conns :
       (Arrives(k) /\ hreqs'[k].r.sid \notin DOMAIN transports /\ ~IsInitialize(hreqs'[k].r)) =>
         /\ hreqs'[k].st = "responded"
         /\ hreqs'[k].resp = <<InvalidSession>>
         /\ hreqs'[k].chan = 0
         /\ transports' = transports
         /\ chans' = chans]_vars

\* The keys of the session map are the session ids of the channels that are
\* initialized and not closed, each mapped to its own channel.
MapMatchesOpenChannels ==
  /\ \A sid \in DOMAIN transports :
       /\ transports[sid] \in DOMAIN chans
       /\ chans[transports[sid]].sessionId = sid
       /\ ~chans[transports[sid]].closed
  /\ \A c \in DOMAIN chans :
       (chans[c].sessionId # "" /\ ~chans[c].closed) =>
         /\ chans[c].sessionId \in DOMAIN transports
         /\ transports[chans[c].sessionId] = c

C5_Original ==
  (proc = "exited" /\ exitCode = 0) =>
    \A sid \in DOMAIN transports : chans[transports[sid]].closeCalls > 0

(***************************************************************************)
(* Properties of startup and of the push-stream transport (checked under   *)
(* SpecSse).                                                               *)
(***************************************************************************)
Tracked == IF transport = 0 THEN {} ELSE {transport}

\* C12: at most one stream is tracked, the tracked stream is never one that
\* has closed, and the step in which a stream closes leaves nothing tracked.
C12_TrackedStream ==
  [][/\ Cardinality(Tracked') <= 1
     /\ \A s \in Tracked' : s \in DOMAIN streams' /\ ~streams'[s].closed
     /\ \A s \in DOMAIN streams : (~streams[s].closed /\ streams'[s].closed) => Tracked' = {}]_vars

\* C12 witness: two streams were opened and the first one has closed after
\* the second was opened, which left nothing tracked.
C12_Witness ==
  /\ Len(streams) = 2
  /\ streams[1].closed
  /\ ~streams[2].closed
  /\ transport = 0

\* C13 as stated: every POST to the message endpoint is answered: once its
\* handler has returned, the response is written or a transport holds the
\* request and will write it.
C13_Original ==
  \A k \in PostConns :
    posts[k].st # "idle" => (posts[k].resp # <<>> \/ posts[k].chan # 0)

NoFlag == ~cloud /\ ~sseLocal /\ ~httpStreamable

OperationCalls == SelectSeq(retryTrace, LAMBDA ev : ev.e = "operation")

Delays == SelectSeq(retryTrace, LAMBDA ev : ev.e = "delay")

AllowedCalls == IF retryCfg.maxAttempts > 1 THEN retryCfg.maxAttempts ELSE 1

MentionsRateLimit(error) ==
  error.isError /\ (Includes(error.message, <<"rate", "limit">>) \/ Includes(error.message, <<"429">>))

RetrySafety ==
  /\ Len(OperationCalls) <= AllowedCalls
  /\ Len(retryOut) <= 1
  /\ (retryPc = "done") = (retryOut # <<>>)
  /\ retryOut # <<>> => Len(OperationCalls) >= 1
  /\ \A j \in 1..Len(retryTrace) :
       /\ retryTrace[j].e = "delay" =>
            /\ j > 1
            /\ retryTrace[j - 1].e = "operation"
            /\ ~retryTrace[j - 1].out.ok
            /\ MentionsRateLimit(retryTrace[j - 1].out.error)
       /\ retryTrace[j].e = "operation" =>
            /\ retryTrace[j].out.ok =>
                 /\ j = Len(retryTrace)
                 /\ retryOut = <<[kind |-> "resolve", value |-> retryTrace[j].out.value]>>
            /\ (/\ ~retryTrace[j].out.ok
                /\ \/ ~MentionsRateLimit(retryTrace[j].out.error)
                   \/ retryTrace[j].attempt = AllowedCalls) =>
                 /\ j = Len(retryTrace)
                 /\ retryOut = <<[kind |-> "reject", error |-> retryTrace[j].out.error]>>

C25_BackoffDelay ==
  /\ \A j \in 1..Len(retryTrace) :
       retryTrace[j].e = "delay" =>
         LET k == retryTrace[j - 1].attempt
             raw == retryCfg.initialDelay * Pow(retryCfg.backoffFactor, k - 1)
         IN  /\ retryTrace[j].ms = (IF raw <= retryCfg.maxDelay THEN raw ELSE retryCfg.maxDelay)
             /\ retryTrace[j].ms <= retryCfg.maxDelay
  /\ retryCfg = RetryConfig(Undefined, Undefined, Undefined, Undefined) =>
       /\ Len(Delays) <= 2
       /\ \A d \in 1..Len(Delays) : Delays[d].ms = (IF d = 1 THEN 1000 ELSE 2000)
       /\ \A d \in 1..Len(Delays) : Delays[d].ms <= 10000
       /\ \A d \in 2..Len(Delays) : Delays[d - 1].ms <= Delays[d].ms

\* C25 witness: under the default configuration withRetry has waited twice.
C25_Witness ==
  /\ retryCfg = RetryConfig(Undefined, Undefined, Undefined, Undefined)
  /\ Len(Delays) = 2
  /\ Delays[1].ms = 1000
  /\ Delays[2].ms = 2000

(***************************************************************************)
(* Properties of the rotation pools and of the page fetcher (checked under *)
(* SpecFetch).                                                             *)
(***************************************************************************)
PoolSize == Len(proxyPool.items)

\* C22: the cursor stays in [0, n); the i-th next() overall, whichever
\* invocation issued it, returned items[(i-1) mod n], and after k calls the
\* cursor is k mod n, for the proxy pool and for the user-agent pool; the
\* pool built from a port range holds the ports in ascending order; on an
\* empty pool every next() returned the sentinel and the cursor did not move.
C22_RoundRobin ==
  /\ \A k \in 1..PoolSize : proxyPool.items[k] = Proxy(FirstPort + k - 1)
  /\ uaPool.cursor = Len(picked) % Len(UserAgents)
  /\ \A i \in 1..Len(picked) : picked[i].ua = UserAgents[((i - 1) % Len(UserAgents)) + 1]
  /\ PoolSize >= 1 =>
       /\ proxyPool.cursor \in 0..(PoolSize - 1)
       /\ proxyPool.cursor = Len(picked) % PoolSize
       /\ \A i \in 1..Len(picked) : picked[i].proxy = proxyPool.items[((i - 1) % PoolSize) + 1]
  /\ PoolSize = 0 =>
       /\ proxyPool.cursor = 0
       /\ \A i \in 1..Len(picked) : picked[i].proxy = Undefined

\* C22 witness: four next() calls on the 3-port pool, issued while two
\* invocations were in progress, returned the entries at indices 0, 1, 2, 0.
C22_Witness ==
  /\ PoolSize = 3
  /\ [i \in 1..Len(picked) |-> picked[i].proxy] =
       <<Proxy(10001), Proxy(10002), Proxy(10003), Proxy(10001)>>
  /\ \A i \in FetchSlots : fetches[i].st \in {"launching", "navigating", "extracting"}

OwnedBrowsers == {fetches[i].browser : i \in {s \in FetchSlots : fetches[s].st \in {"navigating", "extracting"}}}

\* C23: the browsers that are open are those of the calls in progress, so a
\* call that has returned has closed its browser; a call for an invalid URL
\* never had one; and a call that has returned holds exactly one result,
\* which carries a failure in its error field.
C23_BrowserReleased ==
  /\ browsers = OwnedBrowsers
  /\ \A i \in FetchSlots :
       fetches[i].st = "returned" =>
         /\ i \notin browsers
         /\ ~isValidUrl(fetches[i].url) => fetches[i].browser = 0
         /\ Len(fetches[i].result) = 1
         /\ fetches[i].result[1].url = fetches[i].url
         /\ fetches[i].result[1].success \/ fetches[i].result[1].error # ""
  /\ \A i \in FetchSlots :
       fetches[i].st \in {"launching", "navigating", "extracting"} =>
         /\ isValidUrl(fetches[i].url)
         /\ fetches[i].result = <<>>

\* C23 witness: one call has returned a navigation failure and its browser
\* is closed, while another call has returned an invalid-URL failure without
\* ever launching one.
C23_Witness ==
  /\ fetches[1].st = "returned"
  /\ fetches[1].browser = 1
  /\ ~fetches[1].result[1].success
  /\ browsers = {}
  /\ fetches[2].st = "returned"
  /\ fetches[2].url = UrlBad
  /\ fetches[2].browser = 0

(***************************************************************************)
(* Properties of concurrent invocations (checked under SpecConc).          *)
(***************************************************************************)
InBatch(i) == req[i].name = "batch_scrape" /\ CallsOf(i) # <<>>

\* C27: at every point of every interleaving, the records an invocation of
\* batch_scrape has collected are those of the first URLs of its own input,
\* in its input order, one per fetch that has settled; and its result holds
\* exactly one record per URL of its own input, in that order.
C27_NoInterference ==
  \A i \in Slots :
    InBatch(i) =>
      LET urls == req[i].args.urls.v
          fetched == Len(SelectSeq(trace[i], LAMBDA ev : ev.e = "settle"))
      IN  /\ Len(results[i]) = fetched
          /\ Len(results[i]) <= Len(urls)
          /\ \A k \in 1..Len(results[i]) : results[i][k].url = urls[k]
          /\ Done(i) =>
               /\ ~ValueOf(i).isError
               /\ TextOf(i).value = results[i]
               /\ [k \in 1..Len(results[i]) |-> results[i][k].url] = urls

\* C27 witness: two invocations of batch_scrape over different URL orders
\* have interleaved: the second has finished while the first, which started
\* with another URL, still waits for its second fetch.
C27_Witness ==
  /\ InBatch(1)
  /\ InBatch(2)
  /\ req[1].args.urls.v = <<UrlA, UrlB>>
  /\ req[2].args.urls.v = <<UrlB, UrlA>>
  /\ pc[1] = "batch_fetch"
  /\ idx[1] = 2
  /\ Done(2)
  /\ Len(results[2]) = 2

\* C28: in cloud mode every upstream call of an invocation carries the key
\* of that invocation's own request metadata, and an invocation whose
\* request has no key makes no upstream call and ends with an error result
\* that reports 'No API key provided'.
C28_OwnKey ==
  cloud =>
    \A i \in Slots :
      /\ \A c \in 1..Len(CallsOf(i)) : CallsOf(i)[c].key = req[i].metaKey
      /\ (pc[i] # "idle" /\ ~Truthy(req[i].metaKey)) =>
           /\ CallsOf(i) = <<>>
           /\ Done(i)
           /\ ValueOf(i).isError
           /\ TextOf(i) = PlainText(<<"Error:", " ", "No API key provided">>)

\* C28 witness: in cloud mode two invocations with different keys are both
\* waiting for an upstream call.
C28_Witness ==
  /\ cloud
  /\ req[1].metaKey = Str("key-1")
  /\ req[2].metaKey = Str("key-2")
  /\ pc[1] = "batch_fetch"
  /\ pc[2] = "batch_fetch"
  /\ CallsOf(1)[1].key = Str("key-1")
  /\ CallsOf(2)[1].key = Str("key-2")

(***************************************************************************)
(* Further properties of the HTTP transport (checked under SpecHttp).      *)
(***************************************************************************)
\* C21 as stated: a GET /health request is answered with a static status
\* (200), whatever sessions exist.
C21_Original == health # <<>> => health[1].status = 200

C26_Original ==
  (streams # <<>> /\ ~streams[Len(streams)].closed) => transport = Len(streams)

(***************************************************************************)
(* Further properties of the tool registry (checked under Spec).           *)
(***************************************************************************)
\* C30 as stated: the names list-tools offers are the names the dispatcher
\* handles, and every documented tool, screenshot included, is listed.
C30_Original ==
  listed # <<>> =>
    LET names == {listed[1].tools[k].name : k \in 1..Len(listed[1].tools)}
    IN  /\ names = ToolNames
        /\ DocumentedTools \subseteq names

====
